---------------------------- MODULE Spec2Model ----------------------------
(***************************************************************************)
(* Model of src/pages/Index.tsx: the voxel world page.                     *)
(*                                                                         *)
(* State: the React state of the Index component (world, selectedBlock,    *)
(* showInventory, cameraRotation, isDragging) and the dragStart ref.       *)
(* Every event handler is one action.  sortedWorld is, as in the source,   *)
(* a value every render derives from world; it is no state of its own.     *)
(*                                                                         *)
(* Angles are kept in tenths of a degree, so that the sensitivity 0.3 is   *)
(* the integer factor 3: 30 degrees is 300, 360 degrees is 3600.  Pointer  *)
(* coordinates are whole pixels.                                           *)
(*                                                                         *)
(* last is a history variable: the handler that ran last, its arguments,   *)
(* and the part of the state it read, as it was before the handler ran.    *)
(* placed counts the blocks the user has added; it only bounds the         *)
(* exploration.                                                            *)
(***************************************************************************)
EXTENDS Integers, Sequences, FiniteSets, TLC

VARIABLES world, selectedBlock, showInventory,
          cameraRotation, isDragging, dragStart, last, placed

vars == <<world, selectedBlock, showInventory,
          cameraRotation, isDragging, dragStart, last, placed>>

cameraVars == <<cameraRotation, isDragging, dragStart>>

---------------------------------------------------------------------------
(* Program constants *)

WORLD_SIZE == 8

BlockType == {"grass", "dirt", "stone", "wood", "leaves", "planks", "air"}

inventory == <<"grass", "dirt", "stone", "wood", "leaves", "planks">>

(* Math.floor(WORLD_SIZE/2) *)
Center == WORLD_SIZE \div 2

---------------------------------------------------------------------------
(* Bounds of the exploration *)

(* the user adds at most MaxPlaced blocks *)
MaxPlaced == 2

(* the user picks among the first MaxItem inventory items *)
MaxItem == 2

(* the outcomes of Math.random() explored by the initial generation: the   *)
(* columns that may get a dirt block, and for each of the three trees the  *)
(* columns it may stand on (the first two trees share a column)            *)
DirtCols == {<<4, 4>>}
TreeCols == <<{<<1, 2>>}, {<<1, 2>>}, {<<6, 6>>}>>

(* the columns whose rendered blocks the user clicks *)
ClickCols == {<<4, 4>>}

(* the pointer positions of the gesture events, in pixels *)
PointerXs == {0, 100}
PointerYs == {0, 200, 300}

---------------------------------------------------------------------------
(* Pure helpers *)

Block(t, x, y, z) == [type |-> t, x |-> x, y |-> y, z |-> z]

Max2(a, b) == IF a >= b THEN a ELSE b
Min2(a, b) == IF a <= b THEN a ELSE b

(* JavaScript's % : the remainder takes the sign of the dividend *)
JsRem(a, n) == IF a >= 0 THEN a % n ELSE -((-a) % n)

(* mutant of ClampX: the upper bound is forgotten *)
ClampXNoMin(v) == Max2(-900, v)

(* Math.max(-90, Math.min(90, v)), in tenths of a degree *)
ClampX(v) == Max2(-900, Min2(900, v))

(* (v) % 360, in tenths of a degree *)
WrapY(v) == JsRem(v, 3600)

(* the updater passed to setCameraRotation *)
Rotate(prev, deltaX, deltaY) ==
    [x |-> ClampX(prev.x + deltaY * 3),
     y |-> WrapY(prev.y + deltaX * 3)]

(* mutant of RemoveAt: only the first block at the position is removed *)
RemoveFirstAt(s, x, y, z) ==
    LET hits == {i \in DOMAIN s : s[i].x = x /\ s[i].y = y /\ s[i].z = z}
    IN  IF hits = {} THEN s
        ELSE LET k == CHOOSE i \in hits : \A j \in hits : i <= j
             IN  SubSeq(s, 1, k - 1) \o SubSeq(s, k + 1, Len(s))

(* prev.filter(b => !(b.x === x && b.y === y && b.z === z)) *)
RemoveAt(s, x, y, z) ==
    SelectSeq(s, LAMBDA b : ~(b.x = x /\ b.y = y /\ b.z = z))

(* mutant of handleBlockClick: an occupied position is not built on *)
handleBlockClickIfFree(prev, sel, x, y, z, isRightClick) ==
    IF isRightClick /\ sel # "air"
    THEN IF \E i \in DOMAIN prev :
               prev[i].x = x /\ prev[i].y = y + 1 /\ prev[i].z = z
         THEN prev
         ELSE prev \o <<Block(sel, x, y + 1, z)>>
    ELSE RemoveAt(prev, x, y, z)

(* mutant of handleBlockClick: the new block goes one unit below *)
handleBlockClickBelow(prev, sel, x, y, z, isRightClick) ==
    IF isRightClick /\ sel # "air"
    THEN prev \o <<Block(sel, x, y - 1, z)>>
    ELSE RemoveAt(prev, x, y, z)

(* the two setWorld updaters of handleBlockClick *)
handleBlockClick(prev, sel, x, y, z, isRightClick) ==
    IF isRightClick /\ sel # "air"
    THEN prev \o <<Block(sel, x, y + 1, z)>>
    ELSE RemoveAt(prev, x, y, z)

(* the squared distance from the origin *)
Dist(b) == b.x * b.x + b.y * b.y + b.z * b.z

(* mutant of Compare: distA - distB *)
CompareAscending(a, b) == Dist(a) - Dist(b)

(* the comparator of sortedWorld: distB - distA *)
Compare(a, b) == Dist(b) - Dist(a)

(* Array.prototype.sort: a stable sort by the comparator; an element moves *)
(* in front of its predecessor only when the comparator orders it first    *)
Sort(s) == SortSeq(s, LAMBDA e, p : Compare(p, e) > 0)

(* [...world]: sort() reorders the copy it is given, so the array held in  *)
(* the state is after the render what setWorld stored                      *)
StateAfterRender(w) == w

(* const sortedWorld = [...world].sort(...) *)
sortedWorld == Sort(world)

---------------------------------------------------------------------------
(* Initial world generation (the mount effect) *)

(* one iteration of the inner loop for column k = x * WORLD_SIZE + z *)
Column(k, dirt) ==
    LET x == k \div WORLD_SIZE
        z == k % WORLD_SIZE
    IN  <<Block("grass", x, 0, z)>> \o
        (IF <<x, z>> \in dirt THEN <<Block("dirt", x, 1, z)>> ELSE <<>>)

RECURSIVE Ground(_, _)
Ground(k, dirt) ==
    IF k = WORLD_SIZE * WORLD_SIZE THEN <<>>
    ELSE Column(k, dirt) \o Ground(k + 1, dirt)

Tree(c) == <<Block("wood", c[1], 1, c[2]), Block("wood", c[1], 2, c[2]),
             Block("leaves", c[1], 3, c[2])>>

initialWorld(dirt, t1, t2, t3) ==
    Ground(0, dirt) \o Tree(t1) \o Tree(t2) \o Tree(t3)

(* the records of the history variable last *)
WorldOp(op, x, y, z, undo) ==
    [op |-> op, x |-> x, y |-> y, z |-> z, undo |-> undo,
     before |-> world, sel |-> selectedBlock]
PointerOp(op, cx, cy) ==
    [op |-> op, x |-> cx, y |-> cy,
     rot |-> cameraRotation, drag |-> isDragging, from |-> dragStart]

Init ==
    /\ \E dirt \in SUBSET DirtCols : \E t1 \in TreeCols[1], t2 \in TreeCols[2], t3 \in TreeCols[3] :
          world = StateAfterRender(initialWorld(dirt, t1, t2, t3))
    /\ selectedBlock = "grass"
    /\ showInventory = FALSE
    /\ cameraRotation = [x |-> 300, y |-> 450]
    /\ isDragging = FALSE
    /\ dragStart = [x |-> 0, y |-> 0]
    /\ last = [op |-> "init"]
    /\ placed = 0

---------------------------------------------------------------------------
(* World handlers *)

(* setWorld(updater) followed by the re-render *)
SetWorld(w) == world' = StateAfterRender(w)

(* whether this removal hits the position the preceding handler placed at *)
Undoes(x, y, z) ==
    /\ last.op \in {"rightClick", "build"}
    /\ last.x = x /\ last.y + 1 = y /\ last.z = z

(* the rendered tiles are the elements of sortedWorld, which holds the     *)
(* blocks of world in another order; a tile's handlers are closed over its *)
(* block's coordinates, so a click is determined by a block of world       *)
Tiles == {<<world[i].x, world[i].y, world[i].z>> :
             i \in {j \in DOMAIN world : <<world[j].x, world[j].z>> \in ClickCols}}

(* onClick of a rendered block *)
LeftClick(c) ==
    /\ SetWorld(handleBlockClick(world, selectedBlock, c[1], c[2], c[3], FALSE))
    /\ last' = WorldOp("leftClick", c[1], c[2], c[3], Undoes(c[1], c[2], c[3]))
    /\ UNCHANGED <<selectedBlock, showInventory, placed, cameraVars>>

(* onContextMenu of a rendered block *)
RightClick(c) ==
    /\ placed < MaxPlaced
    /\ SetWorld(handleBlockClick(world, selectedBlock, c[1], c[2], c[3], TRUE))
    /\ last' = WorldOp("rightClick", c[1], c[2], c[3], FALSE)
    /\ placed' = placed + 1
    /\ UNCHANGED <<selectedBlock, showInventory, cameraVars>>

(* mutant of FindCenter: the test b.y > 0 is missing *)
RECURSIVE FindCenterAnyY(_, _)
FindCenterAnyY(w, i) ==
    IF i > Len(w) THEN 0
    ELSE IF w[i].x = Center /\ w[i].z = Center THEN i
         ELSE FindCenterAnyY(w, i + 1)

(* world.find(b => b.x === c && b.z === c && b.y > 0): index, 0 if none *)
RECURSIVE FindCenter(_, _)
FindCenter(w, i) ==
    IF i > Len(w) THEN 0
    ELSE IF w[i].x = Center /\ w[i].z = Center /\ w[i].y > 0 THEN i
         ELSE FindCenter(w, i + 1)

(* onClick of the destroy button *)
Destroy ==
    LET k == FindCenter(world, 1) IN
    /\ IF k # 0
       THEN /\ SetWorld(handleBlockClick(world, selectedBlock,
                                         world[k].x, world[k].y, world[k].z, FALSE))
            /\ last' = WorldOp("destroy", world[k].x, world[k].y, world[k].z,
                               Undoes(world[k].x, world[k].y, world[k].z))
       ELSE /\ UNCHANGED world
            /\ last' = [op |-> "destroyNone", before |-> world]
    /\ UNCHANGED <<selectedBlock, showInventory, placed, cameraVars>>

(* mutant of MaxOf: Math.min(...ys, 0) *)
RECURSIVE MinOf(_, _)
MinOf(S, m) ==
    IF S = {} THEN m
    ELSE LET v == CHOOSE e \in S : TRUE IN MinOf(S \ {v}, Min2(m, v))

(* Math.max(...ys, 0) *)
RECURSIVE MaxOf(_, _)
MaxOf(S, m) ==
    IF S = {} THEN m
    ELSE LET v == CHOOSE e \in S : TRUE IN MaxOf(S \ {v}, Max2(m, v))

(* world.filter(b => b.x === cx && b.z === cz).map(b => b.y) *)
ColumnYs(w, cx, cz) == {w[i].y : i \in {j \in DOMAIN w : w[j].x = cx /\ w[j].z = cz}}

(* onClick of the build button *)
Build ==
    LET maxY == MaxOf(ColumnYs(world, Center, Center), 0) IN
    /\ placed < MaxPlaced
    /\ SetWorld(handleBlockClick(world, selectedBlock, Center, maxY, Center, TRUE))
    /\ last' = WorldOp("build", Center, maxY, Center, FALSE)
    /\ placed' = placed + 1
    /\ UNCHANGED <<selectedBlock, showInventory, cameraVars>>

(* onClick of the inventory toggle button *)
ToggleInventory ==
    /\ showInventory' = ~showInventory
    /\ last' = [op |-> "toggle", shown |-> showInventory]
    /\ UNCHANGED <<world, selectedBlock, placed, cameraVars>>

(* mutant of SelectItem: the panel stays open *)
SelectItemKeepOpen(k) ==
    /\ showInventory
    /\ selectedBlock' = inventory[k]
    /\ last' = [op |-> "select", item |-> inventory[k]]
    /\ UNCHANGED <<world, showInventory, placed, cameraVars>>

(* onClick of an inventory item; the items exist only while the panel shows *)
SelectItem(k) ==
    /\ showInventory
    /\ selectedBlock' = inventory[k]
    /\ showInventory' = FALSE
    /\ last' = [op |-> "select", item |-> inventory[k]]
    /\ UNCHANGED <<world, placed, cameraVars>>

---------------------------------------------------------------------------
(* Camera handlers *)

(* onPointerDown *)
handlePointerDown(cx, cy) ==
    /\ isDragging' = TRUE
    /\ dragStart' = [x |-> cx, y |-> cy]
    /\ last' = PointerOp("down", cx, cy)
    /\ UNCHANGED <<cameraRotation, world, selectedBlock, showInventory, placed>>

(* mutant of handlePointerMove: the sampled position is not advanced *)
handlePointerMoveFromStart(cx, cy) ==
    /\ IF ~isDragging
       THEN UNCHANGED cameraRotation
       ELSE cameraRotation' = Rotate(cameraRotation, cx - dragStart.x, cy - dragStart.y)
    /\ last' = PointerOp("move", cx, cy)
    /\ UNCHANGED <<dragStart, isDragging, world, selectedBlock, showInventory, placed>>

(* onPointerMove *)
handlePointerMove(cx, cy) ==
    /\ IF ~isDragging
       THEN UNCHANGED <<cameraRotation, dragStart>>
       ELSE /\ cameraRotation' = Rotate(cameraRotation, cx - dragStart.x, cy - dragStart.y)
            /\ dragStart' = [x |-> cx, y |-> cy]
    /\ last' = PointerOp("move", cx, cy)
    /\ UNCHANGED <<isDragging, world, selectedBlock, showInventory, placed>>

(* onPointerUp and onPointerLeave *)
handlePointerUp(ev) ==
    /\ isDragging' = FALSE
    /\ last' = [op |-> ev, rot |-> cameraRotation, drag |-> isDragging,
                from |-> dragStart]
    /\ UNCHANGED <<cameraRotation, dragStart, world, selectedBlock, showInventory, placed>>

---------------------------------------------------------------------------
(* Specifications *)

NextWorld ==
    \/ \E c \in Tiles : LeftClick(c)
    \/ \E c \in Tiles : RightClick(c)
    \/ Destroy
    \/ Build
    \/ ToggleInventory
    \/ \E k \in 1..Min2(MaxItem, Len(inventory)) : SelectItem(k)

(* the world and the inventory *)
Spec == Init /\ [][NextWorld]_vars

NextRender ==
    \/ \E c \in Tiles : LeftClick(c)
    \/ \E c \in Tiles : RightClick(c)
    \/ Destroy
    \/ Build

(* the world alone, for the render order *)
SpecRender == Init /\ [][NextRender]_vars

NextCamera ==
    \/ \E cx \in PointerXs, cy \in PointerYs : handlePointerDown(cx, cy)
    \/ \E cx \in PointerXs, cy \in PointerYs : handlePointerMove(cx, cy)
    \/ handlePointerUp("up")
    \/ handlePointerUp("leave")

(* the drag gesture *)
SpecCamera == Init /\ [][NextCamera]_vars


---------------------------------------------------------------------------
(* Properties of the drag gesture, under SpecCamera *)

(* the deltas of the last pointer-move: event position minus the position  *)
(* sampled before it                                                       *)
LastDeltaX == last.x - last.from.x
LastDeltaY == last.y - last.from.y

(* C1: in every reachable state the camera rotation y is in [0, 360).      *)
C1_RotationYWrapped == cameraRotation.y >= 0 /\ cameraRotation.y < 3600

(* C2: in every reachable state the camera rotation x is in [-90, 90], and *)
(* a pointer-move whose vertical delta would push x beyond a bound leaves  *)
(* x exactly at that bound; x = 85 with dy = 100 gives 90.                 *)
C2_RotationXClamped ==
    /\ cameraRotation.x >= -900 /\ cameraRotation.x <= 900
    /\ (last.op = "move" /\ last.drag) =>
          /\ last.rot.x + 3 * LastDeltaY > 900 => cameraRotation.x = 900
          /\ last.rot.x + 3 * LastDeltaY < -900 => cameraRotation.x = -900
    /\ Rotate([x |-> 850, y |-> cameraRotation.y], 0, 100).x = 900

(* a pointer-move of an active gesture that pushes x beyond 90 *)
C2_Witness ==
    /\ last.op = "move" /\ last.drag
    /\ last.rot.x < 900
    /\ last.rot.x + 3 * LastDeltaY > 900
    /\ cameraRotation.x = 900

(* C7: a pointer-move changes the rotation only while a gesture is active  *)
(* (after a pointer-down, before the next pointer-up or pointer-leave);    *)
(* it then adds 0.3 times the difference between the pointer position and  *)
(* the previously sampled position (the pointer-down position or the last  *)
(* pointer-move of the gesture) to y and to x, before wrap and clamp, and  *)
(* samples the position; outside a gesture it leaves the rotation alone.   *)
C7_DragRotates ==
    /\ last.op = "init" => ~isDragging
    /\ last.op = "down" =>
          /\ isDragging
          /\ dragStart = [x |-> last.x, y |-> last.y]
          /\ cameraRotation = last.rot
    /\ last.op \in {"up", "leave"} =>
          /\ ~isDragging
          /\ dragStart = last.from
          /\ cameraRotation = last.rot
    /\ (last.op = "move" /\ ~last.drag) =>
          /\ ~isDragging
          /\ dragStart = last.from
          /\ cameraRotation = last.rot
    /\ (last.op = "move" /\ last.drag) =>
          LET vx == last.rot.x + 3 * LastDeltaY
              vy == last.rot.y + 3 * LastDeltaX
          IN  /\ isDragging
              /\ dragStart = [x |-> last.x, y |-> last.y]
              /\ cameraRotation.x = (IF vx > 900 THEN 900
                                     ELSE IF vx < -900 THEN -900 ELSE vx)
              /\ (cameraRotation.y - vy) % 3600 = 0
              /\ cameraRotation.y > -3600 /\ cameraRotation.y < 3600

(* a pointer-move of an active gesture: from {x: 30, y: 45}, dx = 100 and  *)
(* dy = 0 measured from the sampled position give y = 75, x unchanged      *)
C7_Witness ==
    /\ last.op = "move" /\ last.drag
    /\ last.rot = [x |-> 300, y |-> 450]
    /\ last.from = [x |-> 0, y |-> 0]
    /\ LastDeltaX = 100 /\ LastDeltaY = 0
    /\ cameraRotation = [x |-> 300, y |-> 750]


---------------------------------------------------------------------------
(* Properties of the world, under Spec *)

IsAt(b, x, y, z) == b.x = x /\ b.y = y /\ b.z = z

(* the blocks of s at a position, and s without them, in the order of s *)
BlocksAt(s, x, y, z) == SelectSeq(s, LAMBDA b : IsAt(b, x, y, z))
Without(s, x, y, z) == SelectSeq(s, LAMBDA b : ~IsAt(b, x, y, z))

(* the positions of the centre column up to the height the bounds allow *)
CenterProbes == {<<Center, y, Center>> : y \in 0..(MaxPlaced + 2)}

(* C3: a left-click on a rendered block at (x,y,z) yields the previous     *)
(* world with every block at (x,y,z) deleted, duplicates included, and     *)
(* every other block kept in its order; removing where no block is leaves  *)
(* the world unchanged; a removal at the position of the preceding add     *)
(* leaves no block there.                                                  *)
C3_RemoveAllAt ==
    /\ last.op = "leftClick" =>
          /\ world = Without(last.before, last.x, last.y, last.z)
          /\ BlocksAt(world, last.x, last.y, last.z) = <<>>
          /\ Len(world) + Len(BlocksAt(last.before, last.x, last.y, last.z))
                = Len(last.before)
    /\ \A c \in CenterProbes :
          BlocksAt(world, c[1], c[2], c[3]) = <<>> =>
             handleBlockClick(world, selectedBlock, c[1], c[2], c[3], FALSE) = world

(* a left-click that removes two blocks at the position of the preceding add *)
C3_Witness ==
    /\ last.op = "leftClick" /\ last.undo
    /\ Len(BlocksAt(last.before, last.x, last.y, last.z)) >= 2
    /\ Len(world) = Len(last.before) - 2

(* the greatest y of the centre column of s, 0 when the column is empty *)
CenterYs(s) == {s[i].y : i \in {j \in DOMAIN s : s[j].x = Center /\ s[j].z = Center}}
CenterTop(s) ==
    IF CenterYs(s) = {} THEN 0
    ELSE CHOOSE y \in CenterYs(s) : \A y2 \in CenterYs(s) : y2 <= y

(* C4: the build action appends exactly one block of the selected material *)
(* to the centre column (x = 4, z = 4) at y = 1 + the greatest y of the    *)
(* blocks of that column, taking 0 when the column is empty.               *)
C4_BuildOnTop ==
    last.op = "build" =>
       world = Append(last.before,
                      [type |-> last.sel, x |-> 4, y |-> 1 + CenterTop(last.before),
                       z |-> 4])

(* a build on the empty centre column *)
C4_Witness ==
    /\ last.op = "build"
    /\ CenterYs(last.before) = {}
    /\ world[Len(world)].y = 1

(* C5: a right-click on a rendered block at (x,y,z) appends exactly one    *)
(* block of the selected material at (x,y+1,z) to the end of the world and *)
(* leaves every existing block unchanged and in place, also when           *)
(* (x,y+1,z) is occupied; the length grows by exactly 1.                   *)
C5_RightClickAppends ==
    last.op = "rightClick" =>
       /\ Len(world) = Len(last.before) + 1
       /\ SubSeq(world, 1, Len(last.before)) = last.before
       /\ world[Len(world)] =
             [type |-> last.sel, x |-> last.x, y |-> last.y + 1, z |-> last.z]
       /\ selectedBlock = last.sel

(* a right-click below an occupied position *)
C5_Witness ==
    /\ last.op = "rightClick"
    /\ BlocksAt(last.before, last.x, last.y + 1, last.z) # <<>>
    /\ Len(BlocksAt(world, last.x, last.y + 1, last.z)) >= 2

(* the indices of the centre-column blocks of s above the ground *)
CenterAbove(s) == {i \in DOMAIN s : s[i].x = Center /\ s[i].z = Center /\ s[i].y > 0}

(* C6: the destroy action leaves the world unchanged when no block of the  *)
(* centre column has y > 0; otherwise it removes the blocks at the         *)
(* coordinates of the first centre-column block with y > 0 in insertion    *)
(* order, and nothing else.  It never removes a block with y = 0, so the   *)
(* ground block at (4,0,4) stays.                                          *)
C6_Destroy ==
    /\ last.op = "destroyNone" =>
          /\ CenterAbove(last.before) = {}
          /\ world = last.before
    /\ last.op = "destroy" =>
          /\ CenterAbove(last.before) # {}
          /\ LET k == CHOOSE i \in CenterAbove(last.before) :
                         \A j \in CenterAbove(last.before) : i <= j
                 t == last.before[k]
             IN  /\ <<last.x, last.y, last.z>> = <<t.x, t.y, t.z>>
                 /\ world = Without(last.before, t.x, t.y, t.z)
          /\ SelectSeq(world, LAMBDA b : b.y = 0)
                = SelectSeq(last.before, LAMBDA b : b.y = 0)
          /\ BlocksAt(last.before, 4, 0, 4) # <<>> => BlocksAt(world, 4, 0, 4) # <<>>

(* a destroy whose target is not the lowest block above the ground *)
C6_Witness ==
    /\ last.op = "destroy"
    /\ \E i \in CenterAbove(last.before) : last.before[i].y < last.y
    /\ BlocksAt(world, 4, 0, 4) # <<>>
    /\ Len(world) < Len(last.before)

(* C8: every block of the world has x and z in [0, 8) and y >= 0. *)
C8_InRange ==
    \A i \in DOMAIN world :
       /\ world[i].x \in 0..7
       /\ world[i].z \in 0..7
       /\ world[i].y >= 0

(* two blocks placed, one on the other *)
C8_Witness ==
    /\ last.op \in {"rightClick", "build"}
    /\ placed = 2
    /\ world[Len(world)].y >= 2
    /\ world[Len(world) - 1].y >= 1

(* C10: the selected block type is one of the six inventory materials and  *)
(* never 'air', starting at 'grass'; choosing an inventory item sets the   *)
(* selection to that item and hides the inventory panel; a right-click or  *)
(* build action never decreases the number of blocks in the world.         *)
C10_Selection ==
    /\ selectedBlock \in {"grass", "dirt", "stone", "wood", "leaves", "planks"}
    /\ selectedBlock # "air"
    /\ last.op = "init" => selectedBlock = "grass"
    /\ last.op = "select" => selectedBlock = last.item /\ ~showInventory
    /\ last.op \in {"rightClick", "build"} => Len(world) >= Len(last.before) + 1

(* an item other than the default was chosen *)
C10_Witness ==
    /\ last.op = "select"
    /\ selectedBlock = "dirt"
    /\ ~showInventory

---------------------------------------------------------------------------
(* Properties of the render order, under SpecRender *)

Dists(s) == {Dist(s[i]) : i \in DOMAIN s}

(* C9: the render order is a permutation of the world sorted by            *)
(* non-increasing squared distance, blocks of equal squared distance keep  *)
(* their insertion order, and computing it leaves the world sequence as    *)
(* the handler set it.                                                     *)
C9_RenderOrder ==
    LET sw == sortedWorld IN
    /\ Len(sw) = Len(world)
    /\ \A i \in 1..(Len(sw) - 1) : Dist(sw[i]) >= Dist(sw[i + 1])
    /\ \A d \in Dists(world) \cup Dists(sw) :
          SelectSeq(sw, LAMBDA b : Dist(b) = d)
             = SelectSeq(world, LAMBDA b : Dist(b) = d)
    /\ last.op \in {"leftClick", "destroy"} =>
          world = Without(last.before, last.x, last.y, last.z)
    /\ last.op \in {"rightClick", "build"} =>
          SubSeq(world, 1, Len(last.before)) = last.before

(* a placed block that the sort moves in front of blocks inserted before   *)
(* it and behind an older block of the same squared distance               *)
C9_Witness ==
    LET sw == sortedWorld IN
    /\ last.op \in {"rightClick", "build"}
    /\ sw # world
    /\ \E i \in DOMAIN sw :
          /\ sw[i] = world[Len(world)]
          /\ i > 1 /\ i < Len(world)
          /\ Dist(sw[i - 1]) = Dist(sw[i])
          /\ sw[i - 1] # sw[i]

=============================================================================
